---- MODULE Spec2Model ----
(***************************************************************************)
(* A model of the graph library: the unweighted Graph of                   *)
(* src/graphs/graph.py and the WeightedGraph of                            *)
(* src/graphs/weighted_graph.py.                                           *)
(*                                                                         *)
(* A Python dict keeps insertion order, and the algorithms depend on it    *)
(* (list(keys).pop(), the first minimum of a linear scan), so a dict is a  *)
(* sequence of [key, val] records.  A call of an algorithm is an action    *)
(* that leaves the graph alone and stores what the call produced in `ret`: *)
(* kind "return" with a value, or kind "raise" with the exception.         *)
(***************************************************************************)
EXTENDS Integers, Sequences, FiniteSets, TLC

VARIABLES
    vertex_dict,    \* Graph.vertex_dict: id -> list of neighbor ids
    is_directed,    \* Graph.is_directed
    ret,            \* what the last call on the Graph produced
    w_vertex_dict,  \* WeightedGraph.vertex_dict: id -> WeightedVertex.neighbors_dict
    w_is_directed,  \* WeightedGraph.is_directed
    w_ret           \* what the last call on the WeightedGraph produced

vars == <<vertex_dict, is_directed, ret, w_vertex_dict, w_is_directed, w_ret>>
g_vars == <<vertex_dict, is_directed, ret>>
w_vars == <<w_vertex_dict, w_is_directed, w_ret>>

\* The vertex ids the callers use.
Ids == {"A", "B", "C"}

\* Graph: at most this many stored neighbor entries.
MaxEdges == 3

\* WeightedGraph: at most this many edges.
MaxWEdges == 3

\* The edge weights the callers use.
Weights == {1, 2}

\* WeightedGraph.INFINITY, float('inf'): above every sum of weights, and
\* absorbing under addition (Plus)
INFINITY == 1000000

---------------------------------------------------------------------------
(* Python containers *)

\* dict.keys(), in insertion order
Keys(d) == [i \in 1..Len(d) |-> d[i].key]

KeySet(d) == {d[i].key : i \in 1..Len(d)}

\* key in dict
Has(d, k) == k \in KeySet(d)

\* dict[key], for a key of the dict
Get(d, k) == d[CHOOSE i \in 1..Len(d) : d[i].key = k].val

\* dict[key] = value: in place for a key of the dict, else a new last entry
Put(d, k, v) ==
    IF Has(d, k)
    THEN [i \in 1..Len(d) |-> IF d[i].key = k THEN [key |-> k, val |-> v] ELSE d[i]]
    ELSE Append(d, [key |-> k, val |-> v])

\* del dict[key]
Del(d, k) == SelectSeq(d, LAMBDA e : e.key # k)

\* x in list
InSeq(s, x) == \E i \in 1..Len(s) : s[i] = x

SeqSet(s) == {s[i] : i \in 1..Len(s)}

\* list.pop(): the list without its last element
Front(s) == SubSeq(s, 1, Len(s) - 1)

Last(s) == s[Len(s)]

\* list.remove(x), for an x of the list: its first occurrence goes
Remove(s, x) ==
    LET i == CHOOSE j \in 1..Len(s) : s[j] = x /\ \A k \in 1..(j - 1) : s[k] # x
    IN  SubSeq(s, 1, i - 1) \o SubSeq(s, i + 1, Len(s))

\* the stack handed back as it is, not reversed
Reverse_kept(s) == s

\* list(reversed(s))
Reverse(s) == [i \in 1..Len(s) |-> s[Len(s) + 1 - i]]

---------------------------------------------------------------------------
(* Graph *)

\* Graph.get_neighbors; vertex_dict[start_id] raises KeyError for an absent id
get_neighbors(d, directed, start_id) ==
    IF directed
    THEN Get(d, start_id)
    ELSE SelectSeq(Keys(d), LAMBDA v : InSeq(Get(d, v), start_id)) \o Get(d, start_id)

\* the stored neighbor entries of the graph
RECURSIVE TotalEdges(_)
TotalEdges(d) == IF d = <<>> THEN 0 ELSE Len(Head(d).val) + TotalEdges(Tail(d))

None == [kind |-> "return", val |-> "None"]

Raise(e) == [kind |-> "raise", val |-> e]

\* Graph.add_vertex
add_vertex(vertex_id) ==
    /\ vertex_dict' = Put(vertex_dict, vertex_id, <<>>)
    /\ ret' = [op |-> "add_vertex", out |-> None]
    /\ UNCHANGED <<is_directed, w_vars>>

\* Graph.add_edge
add_edge(start_id, end_id) ==
    /\ TotalEdges(vertex_dict) < MaxEdges
    /\ IF Has(vertex_dict, start_id)
       THEN /\ vertex_dict' = Put(vertex_dict, start_id,
                                  Append(Get(vertex_dict, start_id), end_id))
            /\ ret' = [op |-> "add_edge", out |-> None]
       ELSE /\ ret' = [op |-> "add_edge", out |-> Raise("KeyError")]
            /\ UNCHANGED vertex_dict
    /\ UNCHANGED <<is_directed, w_vars>>

\* Graph.bfs_traversal, the loop over the neighbors of the current vertex
RECURSIVE bfs_neighbors(_, _, _, _)
bfs_neighbors(nbrs, i, seen, queue) ==
    IF i > Len(nbrs) THEN [seen |-> seen, queue |-> queue]
    ELSE IF nbrs[i] \notin seen
         THEN bfs_neighbors(nbrs, i + 1, seen \cup {nbrs[i]}, Append(queue, nbrs[i]))
         ELSE bfs_neighbors(nbrs, i + 1, seen, queue)

\* Graph.bfs_traversal, the while loop; processed: the vertices printed so far,
\* enqueued: every vertex appended to the queue so far
RECURSIVE bfs_loop(_, _, _, _, _, _)
bfs_loop(d, directed, seen, queue, processed, enqueued) ==
    IF queue = <<>>
    THEN [kind |-> "return", val |-> "None", processed |-> processed,
          enqueued |-> enqueued]
    ELSE LET current_vertex_id == Head(queue)
             now == Append(processed, current_vertex_id)
         IN  IF ~Has(d, current_vertex_id)
             THEN [kind |-> "raise", val |-> "KeyError", processed |-> now,
                   enqueued |-> enqueued]
             ELSE LET r == bfs_neighbors(get_neighbors(d, directed, current_vertex_id),
                                         1, seen, Tail(queue))
                  IN  bfs_loop(d, directed, r.seen, r.queue, now,
                               enqueued \o SubSeq(r.queue, Len(queue), Len(r.queue)))

\* bfs_traversal without `seen.add(start_id)` before the loop
bfs_traversal_start_unseen(d, directed, start_id) ==
    IF ~Has(d, start_id)
    THEN [kind |-> "raise", val |-> "KeyError", processed |-> <<>>, enqueued |-> <<>>]
    ELSE bfs_loop(d, directed, {}, <<start_id>>, <<>>, <<start_id>>)

\* Graph.bfs_traversal
bfs_traversal(d, directed, start_id) ==
    IF ~Has(d, start_id)
    THEN [kind |-> "raise", val |-> "KeyError", processed |-> <<>>, enqueued |-> <<>>]
    ELSE bfs_loop(d, directed, {start_id}, <<start_id>>, <<>>, <<start_id>>)

\* the loop over the neighbors where the copied path is stored without the
\* neighbor appended to it
RECURSIVE fsp_neighbors_no_append(_, _, _, _, _)
fsp_neighbors_no_append(nbrs, i, vertex, path_dict, queue) ==
    IF i > Len(nbrs) THEN [path_dict |-> path_dict, queue |-> queue]
    ELSE IF nbrs[i] \notin DOMAIN path_dict
         THEN fsp_neighbors_no_append(nbrs, i + 1, vertex,
                                      (nbrs[i] :> path_dict[vertex]) @@ path_dict,
                                      Append(queue, nbrs[i]))
         ELSE fsp_neighbors_no_append(nbrs, i + 1, vertex, path_dict, queue)

\* Graph.find_shortest_path, the loop over the neighbors; path_dict is a
\* function from the discovered ids to their paths
RECURSIVE fsp_neighbors(_, _, _, _, _)
fsp_neighbors(nbrs, i, vertex, path_dict, queue) ==
    IF i > Len(nbrs) THEN [path_dict |-> path_dict, queue |-> queue]
    ELSE IF nbrs[i] \notin DOMAIN path_dict
         THEN fsp_neighbors(nbrs, i + 1, vertex,
                            (nbrs[i] :> Append(path_dict[vertex], nbrs[i])) @@ path_dict,
                            Append(queue, nbrs[i]))
         ELSE fsp_neighbors(nbrs, i + 1, vertex, path_dict, queue)

\* Graph.find_shortest_path, the while loop and the final lookup
RECURSIVE fsp_loop(_, _, _, _, _)
fsp_loop(d, directed, target_id, path_dict, queue) ==
    IF queue = <<>> \/ Head(queue) = target_id
    THEN IF target_id \in DOMAIN path_dict
         THEN [kind |-> "return", val |-> path_dict[target_id]]
         ELSE [kind |-> "raise", val |-> <<"KeyError">>]
    ELSE LET vertex == Head(queue)
         IN  IF ~Has(d, vertex)
             THEN [kind |-> "raise", val |-> <<"KeyError">>]
             ELSE LET r == fsp_neighbors(get_neighbors(d, directed, vertex), 1, vertex,
                                         path_dict, Tail(queue))
                  IN  fsp_loop(d, directed, target_id, r.path_dict, r.queue)

\* Graph.find_shortest_path
find_shortest_path(d, directed, start_id, target_id) ==
    IF ~Has(d, start_id)
    THEN [kind |-> "raise", val |-> <<"KeyError">>]
    ELSE fsp_loop(d, directed, target_id, (start_id :> <<start_id>>), <<start_id>>)

\* Graph.find_connected_components, the loop over the neighbors;
\* list.remove raises ValueError for a neighbor that is not in not_visited
RECURSIVE fcc_neighbors(_, _, _, _, _)
fcc_neighbors(nbrs, i, seen, not_visited, queue) ==
    IF i > Len(nbrs)
    THEN [ok |-> TRUE, seen |-> seen, not_visited |-> not_visited, queue |-> queue]
    ELSE IF nbrs[i] \notin seen
         THEN IF ~InSeq(not_visited, nbrs[i])
              THEN [ok |-> FALSE, seen |-> seen \cup {nbrs[i]},
                    not_visited |-> not_visited, queue |-> queue]
              ELSE fcc_neighbors(nbrs, i + 1, seen \cup {nbrs[i]},
                                 Remove(not_visited, nbrs[i]), Append(queue, nbrs[i]))
         ELSE fcc_neighbors(nbrs, i + 1, seen, not_visited, queue)

\* Graph.find_connected_components, the inner while loop (one component)
RECURSIVE fcc_bfs(_, _, _, _, _)
fcc_bfs(d, directed, seen, not_visited, queue) ==
    IF queue = <<>>
    THEN [ok |-> TRUE, seen |-> seen, not_visited |-> not_visited]
    ELSE LET r == fcc_neighbors(get_neighbors(d, directed, Head(queue)), 1, seen,
                                not_visited, Tail(queue))
         IN  IF ~r.ok THEN [ok |-> FALSE, seen |-> r.seen, not_visited |-> r.not_visited]
             ELSE fcc_bfs(d, directed, r.seen, r.not_visited, r.queue)

\* Graph.find_connected_components, the outer while loop; a component is
\* list(seen) of a set, whose order is not determined: it is kept as the set
RECURSIVE fcc_loop(_, _, _, _)
fcc_loop(d, directed, not_visited, components) ==
    IF not_visited = <<>>
    THEN [kind |-> "return", val |-> components]
    ELSE LET start_id == Last(not_visited)
             r == fcc_bfs(d, directed, {start_id}, Front(not_visited), <<start_id>>)
         IN  IF ~r.ok THEN [kind |-> "raise", val |-> <<{"ValueError"}>>]
             ELSE fcc_loop(d, directed, r.not_visited, Append(components, r.seen))

\* Graph.find_connected_components
find_connected_components(d, directed) == fcc_loop(d, directed, Keys(d), <<>>)

\* Graph.contains_cycle, dfs_traversal_recursive: the for loop from the i-th
\* neighbor on, with the local flag contains_cycle and the two collections the
\* closure shares with its caller; set.remove raises KeyError for an absent element
RECURSIVE cc_dfs(_, _, _, _, _, _, _)
cc_dfs(d, directed, start_vertex, i, contains_cycle, not_visited, current_path) ==
    LET nbrs == get_neighbors(d, directed, start_vertex)
    IN  IF i > Len(nbrs)
        THEN IF start_vertex \in current_path
             THEN [kind |-> "return", val |-> contains_cycle,
                   not_visited |-> not_visited,
                   current_path |-> current_path \ {start_vertex}]
             ELSE [kind |-> "raise", val |-> FALSE, not_visited |-> not_visited,
                   current_path |-> current_path]
        ELSE LET neighbor == nbrs[i]
             IN  IF InSeq(not_visited, neighbor)
                 THEN LET r == cc_dfs(d, directed, neighbor, 1, FALSE,
                                      Remove(not_visited, neighbor),
                                      current_path \cup {neighbor})
                      IN  IF r.kind = "raise" THEN r
                          ELSE cc_dfs(d, directed, start_vertex, i + 1, r.val,
                                      r.not_visited, r.current_path)
                 ELSE IF neighbor \in current_path
                      THEN [kind |-> "return", val |-> TRUE,
                            not_visited |-> not_visited, current_path |-> current_path]
                      ELSE cc_dfs(d, directed, start_vertex, i + 1, contains_cycle,
                                  not_visited, current_path)

\* Graph.contains_cycle: the while loop returns in its first round, and an empty
\* graph falls off the end of the function (None)
contains_cycle(d, directed) ==
    IF Keys(d) = <<>>
    THEN [kind |-> "return", val |-> "None"]
    ELSE LET not_visited == Keys(d)
             start_id == Last(not_visited)
             r == cc_dfs(d, directed, start_id, 1, FALSE, Front(not_visited), {start_id})
         IN  IF r.kind = "raise" THEN [kind |-> "raise", val |-> "KeyError"]
             ELSE [kind |-> "return", val |-> IF r.val THEN "True" ELSE "False"]

\* Graph.topological_sort, dfs_traversal_recursive from the i-th neighbor on
RECURSIVE ts_dfs(_, _, _, _, _, _)
ts_dfs(d, directed, start_vertex, i, not_visited, stack) ==
    LET nbrs == get_neighbors(d, directed, start_vertex)
    IN  IF i > Len(nbrs)
        THEN [not_visited |-> not_visited, stack |-> Append(stack, start_vertex)]
        ELSE IF InSeq(not_visited, nbrs[i])
             THEN LET r == ts_dfs(d, directed, nbrs[i], 1,
                                  Remove(not_visited, nbrs[i]), stack)
                  IN  ts_dfs(d, directed, start_vertex, i + 1, r.not_visited, r.stack)
             ELSE ts_dfs(d, directed, start_vertex, i + 1, not_visited, stack)

\* Graph.topological_sort, the while loop
RECURSIVE ts_loop(_, _, _, _)
ts_loop(d, directed, not_visited, stack) ==
    IF not_visited = <<>> THEN stack
    ELSE LET r == ts_dfs(d, directed, Last(not_visited), 1, Front(not_visited), stack)
         IN  ts_loop(d, directed, r.not_visited, r.stack)

\* Graph.topological_sort: `return ValueError(...)` hands the exception object
\* back as the result (kind "return", is_error TRUE); nothing is raised
topological_sort(d, directed) ==
    LET c == contains_cycle(d, directed)
    IN  IF c.kind = "raise" THEN [kind |-> "raise", is_error |-> TRUE, val |-> <<>>]
        ELSE IF c.val = "True"
        THEN [kind |-> "return", is_error |-> TRUE, val |-> <<"ValueError">>]
        ELSE [kind |-> "return", is_error |-> FALSE,
              val |-> Reverse(ts_loop(d, directed, Keys(d), <<>>))]

\* Graph.find_path_dfs_iter, the loop over the neighbors.  `path_dict[neighbor]
\* = path_dict[vertex]` stores the same list object again, not a copy, so every
\* entry of path_dict is the one list made for start_id, and each append shows
\* in all of them: path_dict is the set of its keys, path the list they share
RECURSIVE dfs_iter_neighbors(_, _, _, _, _)
dfs_iter_neighbors(nbrs, i, path_dict, path, stack) ==
    IF i > Len(nbrs) THEN [path_dict |-> path_dict, path |-> path, stack |-> stack]
    ELSE IF nbrs[i] \notin path_dict
         THEN dfs_iter_neighbors(nbrs, i + 1, path_dict \cup {nbrs[i]},
                                 Append(path, nbrs[i]), Append(stack, nbrs[i]))
         ELSE dfs_iter_neighbors(nbrs, i + 1, path_dict, path, stack)

\* Graph.find_path_dfs_iter, the while loop; the function ends without a
\* return statement (None: found FALSE) when the stack runs empty
RECURSIVE dfs_iter_loop(_, _, _, _, _, _)
dfs_iter_loop(d, directed, target_id, path_dict, path, stack) ==
    IF stack = <<>> THEN [kind |-> "return", found |-> FALSE, val |-> <<>>]
    ELSE LET vertex == Last(stack)
         IN  IF vertex = target_id
             THEN [kind |-> "return", found |-> TRUE, val |-> path]
             ELSE IF ~Has(d, vertex)
             THEN [kind |-> "raise", found |-> FALSE, val |-> <<"KeyError">>]
             ELSE LET r == dfs_iter_neighbors(get_neighbors(d, directed, vertex), 1,
                                              path_dict, path, Front(stack))
                  IN  dfs_iter_loop(d, directed, target_id, r.path_dict, r.path, r.stack)

\* Graph.find_path_dfs_iter
find_path_dfs_iter(d, directed, start_id, target_id) ==
    IF ~Has(d, start_id)
    THEN [kind |-> "raise", found |-> FALSE, val |-> <<"KeyError">>]
    ELSE dfs_iter_loop(d, directed, target_id, {start_id}, <<start_id>>, <<start_id>>)

\* a call of Graph.find_path_dfs_iter
call_find_path_dfs_iter(start_id, target_id) ==
    /\ ret' = [op |-> "find_path_dfs_iter", start_id |-> start_id,
               target_id |-> target_id,
               out |-> find_path_dfs_iter(vertex_dict, is_directed, start_id, target_id)]
    /\ UNCHANGED <<vertex_dict, is_directed, w_vars>>

\* a call of Graph.bfs_traversal
call_bfs_traversal(start_id) ==
    /\ ret' = [op |-> "bfs_traversal", start_id |-> start_id,
               out |-> bfs_traversal(vertex_dict, is_directed, start_id)]
    /\ UNCHANGED <<vertex_dict, is_directed, w_vars>>

\* a call of Graph.find_shortest_path
call_find_shortest_path(start_id, target_id) ==
    /\ ret' = [op |-> "find_shortest_path", start_id |-> start_id,
               target_id |-> target_id,
               out |-> find_shortest_path(vertex_dict, is_directed, start_id, target_id)]
    /\ UNCHANGED <<vertex_dict, is_directed, w_vars>>

\* a call of Graph.find_connected_components
call_find_connected_components ==
    /\ ret' = [op |-> "find_connected_components",
               out |-> find_connected_components(vertex_dict, is_directed)]
    /\ UNCHANGED <<vertex_dict, is_directed, w_vars>>

\* a call of Graph.contains_cycle
call_contains_cycle ==
    /\ ret' = [op |-> "contains_cycle", out |-> contains_cycle(vertex_dict, is_directed)]
    /\ UNCHANGED <<vertex_dict, is_directed, w_vars>>

\* a call of Graph.topological_sort
call_topological_sort ==
    /\ ret' = [op |-> "topological_sort",
               out |-> topological_sort(vertex_dict, is_directed)]
    /\ UNCHANGED <<vertex_dict, is_directed, w_vars>>

InitG ==
    /\ vertex_dict = <<>>
    /\ is_directed \in BOOLEAN
    /\ ret = [op |-> "init", out |-> None]
    /\ w_vertex_dict = <<>>
    /\ w_is_directed = TRUE
    /\ w_ret = [op |-> "init", out |-> None]

NextG ==
    \/ \E v \in Ids : add_vertex(v)
    \/ \E u \in Ids, v \in Ids : add_edge(u, v)
    \/ \E v \in Ids : call_bfs_traversal(v)
    \/ \E u \in Ids, v \in Ids : call_find_shortest_path(u, v)
    \/ call_find_connected_components
    \/ call_contains_cycle
    \/ call_topological_sort

SpecG == InitG /\ [][NextG]_vars

\* a Graph built and searched depth-first
NextGD ==
    \/ \E v \in Ids : add_vertex(v)
    \/ \E u \in Ids, v \in Ids : add_edge(u, v)
    \/ \E u \in Ids, v \in Ids : call_find_path_dfs_iter(u, v)

SpecGD == InitG /\ [][NextGD]_vars

---------------------------------------------------------------------------
(* WeightedGraph *)

\* float addition, where inf + x = inf
Plus(a, b) == IF a = INFINITY \/ b = INFINITY THEN INFINITY ELSE a + b

\* WeightedVertex.add_neighbor, on the neighbors_dict of a vertex
add_neighbor(neighbors_dict, vertex_id, weight) ==
    IF Has(neighbors_dict, vertex_id) THEN neighbors_dict
    ELSE Put(neighbors_dict, vertex_id, weight)

\* WeightedVertex.get_neighbors_with_weights: [key |-> neighbor id, val |-> weight]
get_neighbors_with_weights(d, vertex_id) == Get(d, vertex_id)

\* the number of edges of the graph (an undirected edge is stored at both ends)
RECURSIVE TotalEntries(_)
TotalEntries(d) == IF d = <<>> THEN 0 ELSE Len(Head(d).val) + TotalEntries(Tail(d))

EdgeCount(d, directed) ==
    IF directed THEN TotalEntries(d)
    ELSE (TotalEntries(d)
          + Cardinality({i \in 1..Len(d) : Has(d[i].val, d[i].key)})) \div 2

\* WeightedGraph.add_vertex
w_add_vertex(vertex_id) ==
    /\ IF Has(w_vertex_dict, vertex_id)
       THEN /\ w_ret' = [op |-> "add_vertex", out |-> [kind |-> "return", val |-> "False"]]
            /\ UNCHANGED w_vertex_dict
       ELSE /\ w_vertex_dict' = Put(w_vertex_dict, vertex_id, <<>>)
            /\ w_ret' = [op |-> "add_vertex", out |-> [kind |-> "return", val |-> "True"]]
    /\ UNCHANGED <<w_is_directed, g_vars>>

\* add_edge without the test that both ends are registered: an absent first
\* end fails on the None that get_vertex returns, an absent second end is stored
add_edge_unchecked(d, directed, vertex_id1, vertex_id2, weight) ==
    IF ~Has(d, vertex_id1) THEN d
    ELSE LET d1 == Put(d, vertex_id1,
                       add_neighbor(Get(d, vertex_id1), vertex_id2, weight))
         IN  IF directed \/ ~Has(d, vertex_id2) THEN d1
             ELSE Put(d1, vertex_id2, add_neighbor(Get(d1, vertex_id2), vertex_id1, weight))

\* add_edge that stores the edge at its first end only, whatever is_directed
add_edge_no_mirror(d, directed, vertex_id1, vertex_id2, weight) ==
    IF ~Has(d, vertex_id1) \/ ~Has(d, vertex_id2) THEN d
    ELSE Put(d, vertex_id1, add_neighbor(Get(d, vertex_id1), vertex_id2, weight))

\* WeightedGraph.add_edge: the vertex_dict it leaves
add_edge_dict(d, directed, vertex_id1, vertex_id2, weight) ==
    IF ~Has(d, vertex_id1) \/ ~Has(d, vertex_id2) THEN d
    ELSE LET d1 == Put(d, vertex_id1,
                       add_neighbor(Get(d, vertex_id1), vertex_id2, weight))
         IN  IF directed THEN d1
             ELSE Put(d1, vertex_id2, add_neighbor(Get(d1, vertex_id2), vertex_id1, weight))

\* WeightedGraph.add_edge: False for an absent end, and no return statement
\* (None) after the edge is stored
w_add_edge(vertex_id1, vertex_id2, weight) ==
    /\ EdgeCount(w_vertex_dict, w_is_directed) < MaxWEdges
    /\ w_vertex_dict' = add_edge_dict(w_vertex_dict, w_is_directed,
                                      vertex_id1, vertex_id2, weight)
    /\ w_ret' = [op |-> "add_edge", vertex_id1 |-> vertex_id1,
                 vertex_id2 |-> vertex_id2,
                 out |-> [kind |-> "return",
                          val |-> IF ~Has(w_vertex_dict, vertex_id1)
                                     \/ ~Has(w_vertex_dict, vertex_id2)
                                  THEN "False" ELSE "None"]]
    /\ UNCHANGED <<w_is_directed, g_vars>>

\* WeightedGraph.get_vertices: the vertices by id, in insertion order
get_vertices(d) == Keys(d)

\* WeightedGraph.find
RECURSIVE find(_, _)
find(parent_map, vertex_id) ==
    IF parent_map[vertex_id] = vertex_id THEN vertex_id
    ELSE find(parent_map, parent_map[vertex_id])

\* WeightedGraph.union
union(parent_map, vertex_id1, vertex_id2) ==
    [parent_map EXCEPT ![find(parent_map, vertex_id1)] = find(parent_map, vertex_id2)]

\* minimum_spanning_tree_kruskal, the edge list: (vertex.id, neighbor.id, weight)
\* for every vertex and every neighbor of it, in insertion order
RECURSIVE all_edges(_, _)
all_edges(d, i) ==
    IF i > Len(d) THEN <<>>
    ELSE [j \in 1..Len(d[i].val) |-> <<d[i].key, d[i].val[j].key, d[i].val[j].val>>]
         \o all_edges(d, i + 1)

\* edges.sort(key=weight): ascending, and stable
RECURSIVE sort_by_weight(_)
sort_by_weight(edges) ==
    IF edges = <<>> THEN <<>>
    ELSE LET m == CHOOSE w \in {edges[i][3] : i \in 1..Len(edges)} :
                    \A i \in 1..Len(edges) : w <= edges[i][3]
         IN  SelectSeq(edges, LAMBDA e : e[3] = m)
             \o sort_by_weight(SelectSeq(edges, LAMBDA e : e[3] # m))

\* minimum_spanning_tree_kruskal, the while loop; edges.pop(0) raises
\* IndexError on an empty list
RECURSIVE kruskal_loop(_, _, _, _)
kruskal_loop(edges, parent_map, spanning_tree, n_vertices) ==
    IF ~(Len(spanning_tree) < n_vertices - 1)
    THEN [kind |-> "return", val |-> spanning_tree]
    ELSE IF edges = <<>>
    THEN [kind |-> "raise", val |-> <<<<"IndexError", "", 0>>>>]
    ELSE LET smallest_edge == Head(edges)
         IN  IF find(parent_map, smallest_edge[1]) # find(parent_map, smallest_edge[2])
             THEN kruskal_loop(Tail(edges),
                               union(parent_map, smallest_edge[1], smallest_edge[2]),
                               Append(spanning_tree, smallest_edge), n_vertices)
             ELSE kruskal_loop(Tail(edges), parent_map, spanning_tree, n_vertices)

\* WeightedGraph.minimum_spanning_tree_kruskal
minimum_spanning_tree_kruskal(d) ==
    kruskal_loop(sort_by_weight(all_edges(d, 1)), [v \in KeySet(d) |-> v], <<>>, Len(d))

\* one round of the while loop that on an empty edge list hands back the
\* edges it has instead of raising
kruskal_iteration_returns_short(frame, n_vertices) ==
    IF ~(Len(frame.spanning_tree) < n_vertices - 1) \/ frame.edges = <<>>
    THEN [kind |-> "return", val |-> frame.spanning_tree]
    ELSE LET smallest_edge == Head(frame.edges)
         IN  IF find(frame.parent_map, smallest_edge[1])
                # find(frame.parent_map, smallest_edge[2])
             THEN [kind |-> "running", edges |-> Tail(frame.edges),
                   parent_map |-> union(frame.parent_map, smallest_edge[1], smallest_edge[2]),
                   spanning_tree |-> Append(frame.spanning_tree, smallest_edge)]
             ELSE [frame EXCEPT !.edges = Tail(frame.edges)]

\* minimum_spanning_tree_kruskal, one round of the while loop on the locals
\* edges, parent_map and spanning_tree: the test of the loop, then the body.
\* The call ends when the test fails (return) or edges.pop(0) raises.
kruskal_iteration(frame, n_vertices) ==
    IF ~(Len(frame.spanning_tree) < n_vertices - 1)
    THEN [kind |-> "return", val |-> frame.spanning_tree]
    ELSE IF frame.edges = <<>>
    THEN [kind |-> "raise", val |-> <<<<"IndexError", "", 0>>>>]
    ELSE LET smallest_edge == Head(frame.edges)
         IN  IF find(frame.parent_map, smallest_edge[1])
                # find(frame.parent_map, smallest_edge[2])
             THEN [kind |-> "running", edges |-> Tail(frame.edges),
                   parent_map |-> union(frame.parent_map, smallest_edge[1], smallest_edge[2]),
                   spanning_tree |-> Append(frame.spanning_tree, smallest_edge)]
             ELSE [frame EXCEPT !.edges = Tail(frame.edges)]

\* minimum_spanning_tree_kruskal up to the while loop: the locals it sets up
kruskal_locals(d) ==
    [kind |-> "running", edges |-> sort_by_weight(all_edges(d, 1)),
     parent_map |-> [v \in KeySet(d) |-> v], spanning_tree |-> <<>>]

\* WeightedGraph.get_smallest_vetext, the for loop from the i-th entry on
RECURSIVE get_smallest_from(_, _, _)
get_smallest_from(vertex_to, i, smallest_vertex_id) ==
    IF i > Len(vertex_to) THEN smallest_vertex_id
    ELSE IF vertex_to[i].val < Get(vertex_to, smallest_vertex_id)
         THEN get_smallest_from(vertex_to, i + 1, vertex_to[i].key)
         ELSE get_smallest_from(vertex_to, i + 1, smallest_vertex_id)

\* WeightedGraph.get_smallest_vetext, of a dict that is not empty
get_smallest_vetext(vertex_to) == get_smallest_from(vertex_to, 1, vertex_to[1].key)

\* minimum_spanning_tree_prim, the loop over the neighbors, which takes every
\* edge weight, smaller than the known one or not
RECURSIVE prim_neighbors_always(_, _, _)
prim_neighbors_always(nbrs, i, vertex_to_weight) ==
    IF i > Len(nbrs) THEN vertex_to_weight
    ELSE IF Has(vertex_to_weight, nbrs[i].key)
         THEN prim_neighbors_always(nbrs, i + 1,
                                    Put(vertex_to_weight, nbrs[i].key, nbrs[i].val))
         ELSE prim_neighbors_always(nbrs, i + 1, vertex_to_weight)

\* minimum_spanning_tree_prim, the loop over the neighbors of the vertex taken
RECURSIVE prim_neighbors(_, _, _)
prim_neighbors(nbrs, i, vertex_to_weight) ==
    IF i > Len(nbrs) THEN vertex_to_weight
    ELSE IF Has(vertex_to_weight, nbrs[i].key)
            /\ nbrs[i].val < Get(vertex_to_weight, nbrs[i].key)
         THEN prim_neighbors(nbrs, i + 1,
                             Put(vertex_to_weight, nbrs[i].key, nbrs[i].val))
         ELSE prim_neighbors(nbrs, i + 1, vertex_to_weight)

\* minimum_spanning_tree_prim, the while loop
RECURSIVE prim_loop(_, _, _)
prim_loop(d, vertex_to_weight, total_mst_weight) ==
    IF vertex_to_weight = <<>> THEN total_mst_weight
    ELSE LET smallest_vertex_id == get_smallest_vetext(vertex_to_weight)
         IN  prim_loop(d,
                       prim_neighbors(get_neighbors_with_weights(d, smallest_vertex_id), 1,
                                      Del(vertex_to_weight, smallest_vertex_id)),
                       Plus(total_mst_weight, Get(vertex_to_weight, smallest_vertex_id)))

\* WeightedGraph.minimum_spanning_tree_prim; get_vertices()[0] raises IndexError
\* on a graph without vertices
minimum_spanning_tree_prim(d) ==
    IF d = <<>> THEN [kind |-> "raise", val |-> 0]
    ELSE [kind |-> "return",
          val |-> prim_loop(d, Put([i \in 1..Len(d) |-> [key |-> d[i].key, val |-> INFINITY]],
                                   get_vertices(d)[1], 0),
                            0)]

\* find_shortest_path (Dijkstra), the loop over the neighbors of the vertex
\* taken, which is still in vertex_to_distance
RECURSIVE dijkstra_neighbors(_, _, _, _)
dijkstra_neighbors(nbrs, i, smallest_vertex_id, vertex_to_distance) ==
    IF i > Len(nbrs) THEN vertex_to_distance
    ELSE IF Has(vertex_to_distance, nbrs[i].key)
            /\ nbrs[i].val < Get(vertex_to_distance, nbrs[i].key)
         THEN dijkstra_neighbors(nbrs, i + 1, smallest_vertex_id,
                  Put(vertex_to_distance, nbrs[i].key,
                      Plus(nbrs[i].val, Get(vertex_to_distance, smallest_vertex_id))))
         ELSE dijkstra_neighbors(nbrs, i + 1, smallest_vertex_id, vertex_to_distance)

\* find_shortest_path (Dijkstra), the while loop; the function ends without
\* a return statement (None) when the dict runs empty, and vertex_dict[id]
\* raises KeyError for a start that is no vertex
RECURSIVE dijkstra_loop(_, _, _)
dijkstra_loop(d, target_id, vertex_to_distance) ==
    IF vertex_to_distance = <<>> THEN [kind |-> "return", val |-> -1]
    ELSE LET smallest_vertex_id == get_smallest_vetext(vertex_to_distance)
         IN  IF smallest_vertex_id = target_id
             THEN [kind |-> "return", val |-> Get(vertex_to_distance, target_id)]
             ELSE IF ~Has(d, smallest_vertex_id)
             THEN [kind |-> "raise", val |-> -1]
             ELSE dijkstra_loop(d, target_id,
                      Del(dijkstra_neighbors(
                              get_neighbors_with_weights(d, smallest_vertex_id), 1,
                              smallest_vertex_id, vertex_to_distance),
                          smallest_vertex_id))

\* WeightedGraph.find_shortest_path; val -1 stands for no number (None, or
\* the KeyError raised)
w_find_shortest_path(d, start_id, target_id) ==
    dijkstra_loop(d, target_id,
                  Put([i \in 1..Len(d) |-> [key |-> d[i].key, val |-> INFINITY]],
                      start_id, 0))

\* floyd_warshall, the triple loop `for k, for i, for j` over the keys of
\* dist, from the n-th of its Len(ks)^3 rounds on
RECURSIVE fw_loop(_, _, _)
fw_loop(ks, n, dist) ==
    IF n >= Len(ks) * Len(ks) * Len(ks) THEN dist
    ELSE LET k == ks[(n \div (Len(ks) * Len(ks))) + 1]
             i == ks[((n \div Len(ks)) % Len(ks)) + 1]
             j == ks[(n % Len(ks)) + 1]
             through_k == Plus(dist[i][k], dist[k][j])
         IN  fw_loop(ks, n + 1,
                     [dist EXCEPT ![i][j] = IF through_k < @ THEN through_k ELSE @])

\* WeightedGraph.floyd_warshall.  The comprehension that builds dist iterates
\* over the keys of vertex_dict, which are strings: its key expression
\* `vertex.id` names the variable of the inner comprehension (NameError) and
\* its value expression asks a string for `.id` (AttributeError); which of the
\* two is raised depends on the interpreter's evaluation order, so the error is
\* a parameter.  Only a graph without vertices gets past it, with an empty dist.
floyd_warshall(d, error) ==
    IF d # <<>> THEN [kind |-> "raise", error |-> error, val |-> <<>>]
    ELSE [kind |-> "return", error |-> "",
          val |-> fw_loop(Keys(d), 0, <<>>)]

\* a call of WeightedGraph.floyd_warshall
call_floyd_warshall ==
    /\ \E error \in {"NameError", "AttributeError"} :
         w_ret' = [op |-> "floyd_warshall", out |-> floyd_warshall(w_vertex_dict, error)]
    /\ UNCHANGED <<w_vertex_dict, w_is_directed, g_vars>>

\* a call of WeightedGraph.minimum_spanning_tree_kruskal
call_minimum_spanning_tree_kruskal ==
    /\ w_ret' = [op |-> "minimum_spanning_tree_kruskal",
                 out |-> minimum_spanning_tree_kruskal(w_vertex_dict)]
    /\ UNCHANGED <<w_vertex_dict, w_is_directed, g_vars>>

\* a call of WeightedGraph.minimum_spanning_tree_prim
call_minimum_spanning_tree_prim ==
    /\ w_ret' = [op |-> "minimum_spanning_tree_prim",
                 out |-> minimum_spanning_tree_prim(w_vertex_dict)]
    /\ UNCHANGED <<w_vertex_dict, w_is_directed, g_vars>>

\* a call of WeightedGraph.find_shortest_path
call_w_find_shortest_path(start_id, target_id) ==
    /\ w_ret' = [op |-> "find_shortest_path", start_id |-> start_id,
                 target_id |-> target_id,
                 out |-> w_find_shortest_path(w_vertex_dict, start_id, target_id)]
    /\ UNCHANGED <<w_vertex_dict, w_is_directed, g_vars>>

InitW ==
    /\ w_vertex_dict = <<>>
    /\ w_is_directed \in BOOLEAN
    /\ w_ret = [op |-> "init", out |-> None]
    /\ vertex_dict = <<>>
    /\ is_directed = TRUE
    /\ ret = [op |-> "init", out |-> None]

NextW ==
    \/ \E v \in Ids : w_add_vertex(v)
    \/ \E u \in Ids, v \in Ids, w \in Weights : w_add_edge(u, v, w)
    \/ call_minimum_spanning_tree_kruskal
    \/ call_minimum_spanning_tree_prim
    \/ \E u \in Ids, v \in Ids : call_w_find_shortest_path(u, v)
    \/ call_floyd_warshall

SpecW == InitW /\ [][NextW]_vars

\* an undirected WeightedGraph, built, and its spanning tree computed
InitWU == InitW /\ ~w_is_directed

NextWU ==
    \/ \E v \in Ids : w_add_vertex(v)
    \/ \E u \in Ids, v \in Ids, w \in Weights : w_add_edge(u, v, w)
    \/ call_minimum_spanning_tree_kruskal
    \/ call_minimum_spanning_tree_prim

SpecWU == InitWU /\ [][NextWU]_vars

\* a WeightedGraph under construction: calls of add_vertex and add_edge only
NextWB ==
    \/ \E v \in Ids : w_add_vertex(v)
    \/ \E u \in Ids, v \in Ids, w \in Weights : w_add_edge(u, v, w)

SpecWB == InitW /\ [][NextWB]_vars

\* a call of minimum_spanning_tree_kruskal is under way: w_ret.out holds its
\* locals until it returns or raises
KruskalRunning == w_ret.op = "minimum_spanning_tree_kruskal" /\ w_ret.out.kind = "running"

\* minimum_spanning_tree_kruskal is called: the code before the while loop
kruskal_enter ==
    /\ ~KruskalRunning
    /\ w_ret' = [op |-> "minimum_spanning_tree_kruskal", out |-> kruskal_locals(w_vertex_dict)]
    /\ UNCHANGED <<w_vertex_dict, w_is_directed, g_vars>>

\* the call under way runs one round of its while loop
kruskal_round ==
    /\ KruskalRunning
    /\ w_ret' = [w_ret EXCEPT !.out = kruskal_iteration(w_ret.out, Len(w_vertex_dict))]
    /\ UNCHANGED <<w_vertex_dict, w_is_directed, g_vars>>

\* the caller of a call under way waits for it: the program has one thread
built_add_vertex(vertex_id) == ~KruskalRunning /\ w_add_vertex(vertex_id)

built_add_edge(vertex_id1, vertex_id2, weight) ==
    ~KruskalRunning /\ w_add_edge(vertex_id1, vertex_id2, weight)

\* a WeightedGraph built, and Kruskal's loop run round by round
NextWK ==
    \/ \E v \in Ids : built_add_vertex(v)
    \/ \E u \in Ids, v \in Ids, w \in Weights : built_add_edge(u, v, w)
    \/ kruskal_enter
    \/ kruskal_round

\* a call under way keeps running: nothing suspends it
SpecWK == InitW /\ [][NextWK]_vars /\ WF_vars(kruskal_round)

---------------------------------------------------------------------------
(* What the claims speak of, defined without the algorithms *)

\* every stored neighbor entry names a vertex of the graph
WellFormed(d) == \A i \in 1..Len(d) : SeqSet(d[i].val) \subseteq KeySet(d)

\* y in get_neighbors(x)
Adjacent(d, directed, x, y) == Has(d, x) /\ InSeq(get_neighbors(d, directed, x), y)

Successors(d, directed, S) == {y \in Ids : \E x \in S : Adjacent(d, directed, x, y)}

\* the ids reachable from S in zero or more steps
RECURSIVE ReachFrom(_, _, _)
ReachFrom(d, directed, S) ==
    LET T == S \cup Successors(d, directed, S)
    IN  IF T = S THEN S ELSE ReachFrom(d, directed, T)

\* v lies on a cycle: it is reachable from itself in one or more steps
OnCycle(d, directed, v) == v \in ReachFrom(d, directed, Successors(d, directed, {v}))

HasCycle(d, directed) == \E v \in KeySet(d) : OnCycle(d, directed, v)

CycleReachableFrom(d, directed, v) ==
    \E x \in ReachFrom(d, directed, {v}) : OnCycle(d, directed, x)

\* the least number of edges from a vertex of S to target, S being n edges
\* from the start; target is reachable from S
RECURSIVE HopsFrom(_, _, _, _, _)
HopsFrom(d, directed, S, target, n) ==
    IF target \in S THEN n
    ELSE HopsFrom(d, directed, S \cup Successors(d, directed, S), target, n + 1)

HopDistance(d, directed, start, target) == HopsFrom(d, directed, {start}, target, 0)

NoDuplicates(s) == \A i \in 1..Len(s), j \in 1..Len(s) : s[i] = s[j] => i = j

Position(s, x) == CHOOSE i \in 1..Len(s) : s[i] = x

---------------------------------------------------------------------------
(* Claims on the Graph *)

\* C3: on a directed graph whose edges all target registered vertices,
\* contains_cycle() returns True exactly when a directed cycle is reachable
\* from the vertex the traversal starts at, the last vertex in key order.
C3_TrueIffCycleReachableFromStart ==
    (/\ ret.op = "contains_cycle"
     /\ is_directed
     /\ WellFormed(vertex_dict)
     /\ vertex_dict # <<>>)
    => /\ ret.out.kind = "return"
       /\ ret.out.val = "True"
            <=> CycleReachableFrom(vertex_dict, is_directed, Last(Keys(vertex_dict)))

\* C4: on a directed graph that contains a directed cycle, topological_sort()
\* reports the failure (an exception raised, or at least an error object as the
\* result) and hands back no vertex ordering.
C4_CyclicGraphIsRefused ==
    (/\ ret.op = "topological_sort"
     /\ is_directed
     /\ WellFormed(vertex_dict)
     /\ HasCycle(vertex_dict, is_directed))
    => (ret.out.kind = "raise" \/ ret.out.is_error)

\* C5: on a directed acyclic graph, topological_sort() returns a sequence
\* that holds every vertex exactly once, with u before v for every stored
\* edge u -> v.
C5_TopologicalOrder ==
    (/\ ret.op = "topological_sort"
     /\ is_directed
     /\ WellFormed(vertex_dict)
     /\ ~HasCycle(vertex_dict, is_directed))
    => /\ ret.out.kind = "return"
       /\ ~ret.out.is_error
       /\ NoDuplicates(ret.out.val)
       /\ SeqSet(ret.out.val) = KeySet(vertex_dict)
       /\ \A u \in KeySet(vertex_dict) : \A v \in SeqSet(Get(vertex_dict, u)) :
            Position(ret.out.val, u) < Position(ret.out.val, v)

\* a sort of three vertices with three edges has been returned
C5_Witness ==
    /\ ret.op = "topological_sort"
    /\ is_directed
    /\ WellFormed(vertex_dict)
    /\ ~HasCycle(vertex_dict, is_directed)
    /\ Len(vertex_dict) = 3
    /\ Cardinality({<<u, v>> \in Ids \X Ids : Adjacent(vertex_dict, TRUE, u, v)}) = 3
    /\ ret.out.kind = "return"
    /\ Len(ret.out.val) = 3

\* C6: on every graph, directed or undirected, find_connected_components()
\* returns, without an error, components that are pairwise disjoint and whose
\* union is the vertex set.
C6_ComponentsPartitionVertices ==
    (/\ ret.op = "find_connected_components"
     /\ WellFormed(vertex_dict))
    => /\ ret.out.kind = "return"
       /\ UNION SeqSet(ret.out.val) = KeySet(vertex_dict)
       /\ \A i \in 1..Len(ret.out.val), j \in 1..Len(ret.out.val) :
            i # j => ret.out.val[i] \cap ret.out.val[j] = {}

\* C8: when target is reachable from start, find_shortest_path returns a
\* sequence from start to target whose consecutive vertices are neighbors and
\* whose number of edges is the hop distance.
C8_ShortestPath ==
    (/\ ret.op = "find_shortest_path"
     /\ WellFormed(vertex_dict)
     /\ Has(vertex_dict, ret.start_id)
     /\ ret.target_id \in ReachFrom(vertex_dict, is_directed, {ret.start_id}))
    => /\ ret.out.kind = "return"
       /\ Len(ret.out.val) >= 1
       /\ ret.out.val[1] = ret.start_id
       /\ Last(ret.out.val) = ret.target_id
       /\ \A i \in 1..(Len(ret.out.val) - 1) :
            Adjacent(vertex_dict, is_directed, ret.out.val[i], ret.out.val[i + 1])
       /\ Len(ret.out.val) - 1
            = HopDistance(vertex_dict, is_directed, ret.start_id, ret.target_id)

\* a path of two edges was returned in a graph where the start has two neighbors
C8_Witness ==
    /\ ret.op = "find_shortest_path"
    /\ WellFormed(vertex_dict)
    /\ Has(vertex_dict, ret.start_id)
    /\ ret.out.kind = "return"
    /\ Len(ret.out.val) = 3
    /\ Cardinality(Successors(vertex_dict, is_directed, {ret.start_id})) = 2

\* C9: bfs_traversal(v) for a vertex v of the graph processes v first and
\* every vertex reachable from v exactly once, queues no vertex twice and
\* processes nothing else; for an absent v it fails with the vertex-not-found
\* error before it processes anything.
C9_BfsVisitsReachableOnce ==
    ret.op = "bfs_traversal"
    => /\ (Has(vertex_dict, ret.start_id) /\ WellFormed(vertex_dict))
          => /\ ret.out.kind = "return"
             /\ ret.out.processed[1] = ret.start_id
             /\ NoDuplicates(ret.out.processed)
             /\ NoDuplicates(ret.out.enqueued)
             /\ SeqSet(ret.out.processed)
                  = ReachFrom(vertex_dict, is_directed, {ret.start_id})
       /\ ~Has(vertex_dict, ret.start_id)
          => /\ ret.out.kind = "raise"
             /\ ret.out.val = "KeyError"
             /\ ret.out.processed = <<>>

\* a traversal of three vertices in a graph with a cycle has returned
C9_Witness ==
    /\ ret.op = "bfs_traversal"
    /\ WellFormed(vertex_dict)
    /\ HasCycle(vertex_dict, is_directed)
    /\ ret.out.kind = "return"
    /\ Len(ret.out.processed) = 3

\* C11: a sequence that find_path_dfs_iter(start, target) returns is a path
\* from start to target: it begins with start, ends with target, and its
\* consecutive vertices are neighbors; for an unreachable target the call
\* returns not-found.
C11_DfsReturnsRealPath ==
    (/\ ret.op = "find_path_dfs_iter"
     /\ WellFormed(vertex_dict)
     /\ Has(vertex_dict, ret.start_id))
    => /\ ret.out.kind = "return"
       /\ ret.out.found
          => /\ ret.out.val[1] = ret.start_id
             /\ Last(ret.out.val) = ret.target_id
             /\ \A i \in 1..(Len(ret.out.val) - 1) :
                  Adjacent(vertex_dict, is_directed, ret.out.val[i], ret.out.val[i + 1])
       /\ ret.target_id \notin ReachFrom(vertex_dict, is_directed, {ret.start_id})
          => ~ret.out.found

---------------------------------------------------------------------------
(* What the claims on the WeightedGraph speak of *)

\* the stored edges <<u, v, weight>>
EdgeSet(d) == {<<d[i].key, d[i].val[j].key, d[i].val[j].val>> :
                 <<i, j>> \in {p \in (1..Len(d)) \X (1..Len(d)) : p[2] <= Len(d[p[1]].val)}}

Min(S) == CHOOSE x \in S : \A y \in S : x <= y

\* the least weight of a walk of at most n edges from start to every vertex
RECURSIVE WalkWeights(_, _, _)
WalkWeights(d, start, n) ==
    IF n = 0 THEN [v \in KeySet(d) |-> IF v = start THEN 0 ELSE INFINITY]
    ELSE LET prev == WalkWeights(d, start, n - 1)
         IN  [v \in KeySet(d) |->
                Min({prev[v]} \cup {Plus(prev[e[1]], e[3]) : e \in {x \in EdgeSet(d) : x[2] = v}})]

\* the minimum total weight over all paths from start to target, INFINITY
\* without a path
ShortestDistance(d, start, target) == WalkWeights(d, start, Len(d))[target]

W_Successors(d, S) == {e[2] : e \in {x \in EdgeSet(d) : x[1] \in S}}

RECURSIVE W_ReachFrom(_, _)
W_ReachFrom(d, S) ==
    LET T == S \cup W_Successors(d, S)
    IN  IF T = S THEN S ELSE W_ReachFrom(d, T)

\* every vertex is reachable from every other (the graph is undirected)
Connected(d) == \A v \in KeySet(d) : W_ReachFrom(d, {v}) = KeySet(d)

\* the vertices linked to S by edges taken in either direction
RECURSIVE LinkedTo(_, _)
LinkedTo(d, S) ==
    LET T == S \cup {e[2] : e \in {x \in EdgeSet(d) : x[1] \in S}}
               \cup {e[1] : e \in {x \in EdgeSet(d) : x[2] \in S}}
    IN  IF T = S THEN S ELSE LinkedTo(d, T)

\* some two vertices are joined by no chain of edges: no spanning tree exists
Disconnected(d) == \E v \in KeySet(d) : LinkedTo(d, {v}) # KeySet(d)

RECURSIVE WeightSum(_)
WeightSum(edges) == IF edges = <<>> THEN 0 ELSE Head(edges)[3] + WeightSum(Tail(edges))

---------------------------------------------------------------------------
(* Claims on the WeightedGraph *)

\* C1: for registered vertices start and target, find_shortest_path (Dijkstra)
\* returns the minimum total edge weight over all paths from start to target,
\* infinity when there is no path.
C1_DijkstraReturnsShortestDistance ==
    (/\ w_ret.op = "find_shortest_path"
     /\ Has(w_vertex_dict, w_ret.start_id)
     /\ Has(w_vertex_dict, w_ret.target_id))
    => /\ w_ret.out.kind = "return"
       /\ w_ret.out.val = ShortestDistance(w_vertex_dict, w_ret.start_id, w_ret.target_id)

\* C2: on a connected undirected graph with at least one vertex, Kruskal
\* returns exactly |V| - 1 edges, and the sum of their weights is the number
\* Prim returns.
C2_KruskalAgreesWithPrim ==
    (/\ ~w_is_directed
     /\ w_vertex_dict # <<>>
     /\ Connected(w_vertex_dict))
    => /\ w_ret.op = "minimum_spanning_tree_kruskal"
          => /\ w_ret.out.kind = "return"
             /\ Len(w_ret.out.val) = Len(w_vertex_dict) - 1
             /\ minimum_spanning_tree_prim(w_vertex_dict).kind = "return"
             /\ WeightSum(w_ret.out.val) = minimum_spanning_tree_prim(w_vertex_dict).val
       /\ w_ret.op = "minimum_spanning_tree_prim"
          => /\ w_ret.out.kind = "return"
             /\ minimum_spanning_tree_kruskal(w_vertex_dict).kind = "return"
             /\ w_ret.out.val = WeightSum(minimum_spanning_tree_kruskal(w_vertex_dict).val)

\* Prim has returned the weight of a triangle's spanning tree whose three
\* edges do not all weigh the same
C2_Witness ==
    /\ ~w_is_directed
    /\ Len(w_vertex_dict) = 3
    /\ Connected(w_vertex_dict)
    /\ Cardinality({{e[1], e[2]} : e \in {x \in EdgeSet(w_vertex_dict) : x[1] # x[2]}}) = 3
    /\ Cardinality({e[3] : e \in EdgeSet(w_vertex_dict)}) = 2
    /\ w_ret.op = "minimum_spanning_tree_prim"
    /\ w_ret.out.kind = "return"

\* C7: floyd_warshall() returns, for every ordered pair of vertices, the
\* shortest-path distance: 0 from a vertex to itself, infinity only for an
\* unreachable vertex, and no entry above a detour through a third vertex.
C7_FloydWarshallDistances ==
    w_ret.op = "floyd_warshall"
    => /\ w_ret.out.kind = "return"
       /\ \A i \in KeySet(w_vertex_dict) :
            /\ w_ret.out.val[i][i] = 0
            /\ \A j \in KeySet(w_vertex_dict) :
                 /\ w_ret.out.val[i][j] = ShortestDistance(w_vertex_dict, i, j)
                 /\ \A k \in KeySet(w_vertex_dict) :
                      w_ret.out.val[i][j]
                        <= Plus(w_ret.out.val[i][k], w_ret.out.val[k][j])

\* every neighbor entry targets a registered vertex
AllTargetsRegistered ==
    \A i \in 1..Len(w_vertex_dict) :
        KeySet(w_vertex_dict[i].val) \subseteq KeySet(w_vertex_dict)

\* a call of add_edge with an end that is no vertex returns False and leaves
\* the vertex map and every neighbor map as they were
FailedAddEdgeChangesNothing ==
    (/\ w_ret'.op = "add_edge"
     /\ (~Has(w_vertex_dict, w_ret'.vertex_id1) \/ ~Has(w_vertex_dict, w_ret'.vertex_id2)))
    => /\ w_ret'.out.val = "False"
       /\ w_vertex_dict' = w_vertex_dict

\* C10: add_edge(u, v, w) with u or v not registered returns False and changes
\* no map; so after any calls of add_vertex and add_edge every neighbor entry
\* targets a registered vertex.
C10_AddEdgeNeedsBothVertices ==
    /\ []AllTargetsRegistered
    /\ [][FailedAddEdgeChangesNothing]_vars

\* add_edge has returned False on a graph that has vertices and edges
C10_Witness ==
    /\ w_ret.op = "add_edge"
    /\ w_ret.out.val = "False"
    /\ (Has(w_vertex_dict, w_ret.vertex_id1) \/ Has(w_vertex_dict, w_ret.vertex_id2))
    /\ TotalEntries(w_vertex_dict) > 0

\* C12: in an undirected WeightedGraph, after any calls of add_vertex and
\* add_edge, v is in u's neighbor map with weight w exactly when u is in v's
\* neighbor map with the same weight w.
C12_NeighborMapsSymmetric ==
    ~w_is_directed
    => \A u \in KeySet(w_vertex_dict), v \in Ids, w \in Weights :
         (Has(Get(w_vertex_dict, u), v) /\ Get(Get(w_vertex_dict, u), v) = w)
         <=> (/\ Has(w_vertex_dict, v)
              /\ Has(Get(w_vertex_dict, v), u)
              /\ Get(Get(w_vertex_dict, v), u) = w)

\* add_edge has run on an edge that an undirected graph already had (its
\* entry is not the newest of the first end's map), in a graph with a
\* self-loop and edges of both weights
C12_Witness ==
    /\ ~w_is_directed
    /\ w_ret.op = "add_edge"
    /\ w_ret.out.val = "None"
    /\ w_ret.vertex_id1 # w_ret.vertex_id2
    /\ Last(Get(w_vertex_dict, w_ret.vertex_id1)).key # w_ret.vertex_id2
    /\ \E i \in 1..Len(w_vertex_dict) : Has(w_vertex_dict[i].val, w_vertex_dict[i].key)
    /\ Cardinality({e[3] : e \in EdgeSet(w_vertex_dict)}) = 2

\* a call of minimum_spanning_tree_kruskal has ended
KruskalEnded == w_ret.op = "minimum_spanning_tree_kruskal" /\ w_ret.out.kind # "running"

\* C13: on every disconnected weighted graph minimum_spanning_tree_kruskal
\* ends, and ends with an exception raised to its caller: it neither loops
\* forever nor returns a list of fewer than |V|-1 edges.
C13_KruskalFailsOnDisconnected ==
    /\ []((KruskalEnded /\ Disconnected(w_vertex_dict)) => w_ret.out.kind = "raise")
    /\ (KruskalRunning /\ Disconnected(w_vertex_dict))
         ~> (KruskalEnded /\ w_ret.out.kind = "raise")

\* the call has ended with the exception on a disconnected graph of three
\* vertices that has a self-loop and an edge between two vertices: the loop
\* popped every edge before edges.pop(0) raised
C13_Witness ==
    /\ KruskalEnded
    /\ Disconnected(w_vertex_dict)
    /\ Len(w_vertex_dict) = 3
    /\ \E i \in 1..Len(w_vertex_dict) : Has(w_vertex_dict[i].val, w_vertex_dict[i].key)
    /\ \E e \in EdgeSet(w_vertex_dict) : e[1] # e[2]
    /\ w_ret.out.kind = "raise"
====
